---- MODULE Spec2Model ----
(***************************************************************************)
(* Model of the embedded-system simulator (src/main.rs): the menu loop of  *)
(* main, adjust_settings, view_logs and the tick loop of run_simulation    *)
(* with its helpers check_alerts and calculate_statistics.                 *)
(*                                                                         *)
(* Time is counted in whole seconds (the code compares Instant::elapsed    *)
(* with Duration::from_secs of integer values).  f32 readings and          *)
(* thresholds are integer-valued.  An Option is a sequence of length 0     *)
(* (None) or 1 (Some).                                                     *)
(***************************************************************************)
EXTENDS Integers, Sequences, FiniteSets, TLC

VARIABLES
    pc,                     \* position of the single thread of control
    config,                 \* the Config value owned by main
    now,                    \* the monotonic clock read by Instant::now()
    duration_seconds,       \* run_simulation local
    start_time,             \* run_simulation local
    last_temperature_time,  \* run_simulation local
    last_humidity_time,     \* run_simulation local
    last_light_time,        \* run_simulation local
    temperature,            \* Option reading of the current iteration
    humidity,               \* Option reading of the current iteration
    light,                  \* Option reading of the current iteration
    temperature_values,     \* the rolling window (Vec<f32>)
    out,                    \* what the current loop iteration has printed/logged
    alerts,                 \* the Vec returned by the last check_alerts call
    log_exists,             \* whether the log file exists
    log_lines,              \* number of records in the log file
    runs,                   \* number of runs started in this process
    entered,                \* adjust_settings locals: the choice and the input line read
    pushed                  \* history: every temperature pushed in this run

vars == <<pc, config, now, duration_seconds, start_time, last_temperature_time,
          last_humidity_time, last_light_time, temperature, humidity, light,
          temperature_values, out, alerts, log_exists, log_lines, runs,
          entered, pushed>>

runLocals == <<duration_seconds, start_time, last_temperature_time,
               last_humidity_time, last_light_time, temperature, humidity,
               light, temperature_values, out, alerts, pushed>>

----------------------------------------------------------------------------
(* Bounds of the model *)

MaxRate == 2        \* sampling rates range over 0..MaxRate
MaxOverrun == 1     \* thread::sleep may overrun by 0..MaxOverrun seconds
MaxRuns == 2        \* runs started per process in the whole-program model

(* Program constants *)

WindowCapacity == 10
DurationShort == 15
DurationLong == 30
TickPeriod == 1
TempMin == 20
TempMax == 30
HumMin == 30
HumMax == 70
LightMin == 0
LightMax == 100

None == <<>>
Some(v) == <<v>>
IsSome(o) == Len(o) = 1
Unwrap(o) == o[1]

Min(a, b) == IF a < b THEN a ELSE b
Max(a, b) == IF a > b THEN a ELSE b

----------------------------------------------------------------------------
(* Pure helpers of the program *)

\* Instant::elapsed() >= Duration::from_secs(secs), for an Instant `since`
ElapsedAtLeast(since, secs) == now - since >= secs

\* Due with a strict comparison
DueStrict(last, rate) == now - last > rate

\* Due one second early
DueEarly(last, rate) == now - last >= rate - 1

\* the test that decides whether a sensor is sampled in this iteration
Due(last, rate) == ElapsedAtLeast(last, rate)

\* Expired two seconds late
ExpiredTwoLate(start, secs) == now - start >= secs + 2

\* the loop's exit test
Expired(start, secs) == ElapsedAtLeast(start, secs)

\* the duration chosen at the prompt
ChosenDuration(choice) ==
    CASE choice = "1" -> DurationShort
      [] choice = "2" -> DurationLong
      [] OTHER -> DurationLong

\* PushWindow without the push
PushWindowForgotten(values, temp) == values

\* PushWindow removing the newest element instead of the oldest
PushWindowDropNewest(values, temp) ==
    LET appended == Append(values, temp)
    IN  IF Len(appended) > WindowCapacity
        THEN SubSeq(appended, 1, WindowCapacity) ELSE appended

\* temperature_values.push(temp); if len > 10 { remove(0) }
PushWindow(values, temp) ==
    LET appended == Append(values, temp)
    IN  IF Len(appended) > WindowCapacity THEN Tail(appended) ELSE appended

RECURSIVE SumSeq(_)
SumSeq(s) == IF s = <<>> THEN 0 ELSE Head(s) + SumSeq(Tail(s))

RECURSIVE FoldMin(_, _)
FoldMin(acc, s) == IF s = <<>> THEN acc ELSE FoldMin(Min(acc, Head(s)), Tail(s))

RECURSIVE FoldMax(_, _)
FoldMax(acc, s) == IF s = <<>> THEN acc ELSE FoldMax(Max(acc, Head(s)), Tail(s))

\* f32 values that are not numbers of the integer-valued model
NaN == "NaN"
PosInfinity == "inf"
NegInfinity == "-inf"

\* calculate_statistics with the minimum fold seeded with 0.0
calculate_statistics_zero_seed(values) ==
    IF values = <<>>
    THEN <<NaN, PosInfinity, NegInfinity>>
    ELSE <<  <<SumSeq(values), Len(values)>>,
             FoldMin(0, values),
             FoldMax(Head(values), Tail(values)) >>

\* (average, min, max); the average is kept exact as <<sum, count>>.
\* On an empty slice: 0.0 / 0.0 = NaN and the folds return their seeds.
calculate_statistics(values) ==
    IF values = <<>>
    THEN <<NaN, PosInfinity, NegInfinity>>
    ELSE <<  <<SumSeq(values), Len(values)>>,
             FoldMin(Head(values), Tail(values)),
             FoldMax(Head(values), Tail(values)) >>

\* check_alerts alerting on a reading equal to its threshold
check_alerts_inclusive(temp, hum, lgt, cfg) ==
    LET a0 == <<>>
        a1 == IF temp >= cfg.temperature_threshold
              THEN Append(a0, <<"Temperature", temp>>) ELSE a0
        a2 == IF hum >= cfg.humidity_threshold
              THEN Append(a1, <<"Humidity", hum>>) ELSE a1
        a3 == IF lgt >= cfg.light_threshold
              THEN Append(a2, <<"Light", lgt>>) ELSE a2
    IN  a3

\* check_alerts suppressing a kind already reported by the previous call
check_alerts_deduplicated(temp, hum, lgt, cfg) ==
    LET reported == {alerts[i][1] : i \in 1..Len(alerts)}
        a0 == <<>>
        a1 == IF temp > cfg.temperature_threshold /\ "Temperature" \notin reported
              THEN Append(a0, <<"Temperature", temp>>) ELSE a0
        a2 == IF hum > cfg.humidity_threshold /\ "Humidity" \notin reported
              THEN Append(a1, <<"Humidity", hum>>) ELSE a1
        a3 == IF lgt > cfg.light_threshold /\ "Light" \notin reported
              THEN Append(a2, <<"Light", lgt>>) ELSE a2
    IN  a3

\* one message per exceeded threshold, pushed in the order of the three ifs
check_alerts(temp, hum, lgt, cfg) ==
    LET a0 == <<>>
        a1 == IF temp > cfg.temperature_threshold
              THEN Append(a0, <<"Temperature", temp>>) ELSE a0
        a2 == IF hum > cfg.humidity_threshold
              THEN Append(a1, <<"Humidity", hum>>) ELSE a1
        a3 == IF lgt > cfg.light_threshold
              THEN Append(a2, <<"Light", lgt>>) ELSE a2
    IN  a3

AlertLines(found) == [i \in 1..Len(found) |-> <<"alert", found[i]>>]

\* Emission with the statistics line printed before the alerts
EmissionStatsFirst(temp, hum, lgt, window, cfg) ==
    <<  <<"display", <<temp, hum, lgt>>>>,
        <<"log", <<temp, hum, lgt>>>>  >>
    \o (IF cfg.real_time_graph THEN << <<"graph", window>> >> ELSE <<>>)
    \o << <<"stats", calculate_statistics(window)>> >>
    \o AlertLines(check_alerts(temp, hum, lgt, cfg))

\* everything one combined iteration prints and logs, in program order
Emission(temp, hum, lgt, window, cfg) ==
    <<  <<"display", <<temp, hum, lgt>>>>,
        <<"log", <<temp, hum, lgt>>>>  >>
    \o (IF cfg.real_time_graph THEN << <<"graph", window>> >> ELSE <<>>)
    \o AlertLines(check_alerts(temp, hum, lgt, cfg))
    \o << <<"stats", calculate_statistics(window)>> >>

\* a write that truncates the file: only the new record is left
TruncatingWrite(lines) == 1

\* FileLogger::log on a file opened with append(true).create(true): the
\* record is added after the records already there
AppendRecord(lines) == lines + 1

\* what has been printed when logger.log(..).expect(..) panics
EmissionBeforePanic(temp, hum, lgt) == << <<"display", <<temp, hum, lgt>>>> >>

----------------------------------------------------------------------------
(* run_simulation *)

InRun == pc \in {"loop", "body", "sleep"}

\* the window of the previous run kept
StaleWindow == temperature_values

\* let mut temperature_values: Vec<f32> = Vec::new()
FreshWindow == <<>>

\* main's choice "1": the duration prompt and the locals set up before the loop
StartSimulation(choice) ==
    /\ pc = "menu"
    /\ runs < MaxRuns
    /\ runs' = runs + 1
    /\ temperature_values' = FreshWindow
    /\ duration_seconds' = ChosenDuration(choice)
    /\ start_time' = now
    /\ last_temperature_time' = now
    /\ last_humidity_time' = now
    /\ last_light_time' = now
    /\ temperature' = None
    /\ humidity' = None
    /\ light' = None
    /\ out' = <<>>
    /\ alerts' = <<>>
    /\ pushed' = <<>>
    /\ pc' = "loop"
    /\ UNCHANGED <<entered, config, now, log_exists, log_lines>>

\* loop head: the duration has elapsed, print the completion line and break
Complete ==
    /\ pc = "loop"
    /\ Expired(start_time, duration_seconds)
    /\ pc' = "completed"
    /\ UNCHANGED <<entered, config, now, log_exists, log_lines, runs, runLocals>>

\* loop head: the duration has not elapsed, go on with the iteration
Continue ==
    /\ pc = "loop"
    /\ ~Expired(start_time, duration_seconds)
    /\ pc' = "body"
    /\ UNCHANGED <<entered, config, now, log_exists, log_lines, runs, runLocals>>

DueT == Due(last_temperature_time, config.temperature_sampling_rate)
DueH == Due(last_humidity_time, config.humidity_sampling_rate)
DueL == Due(last_light_time, config.light_sampling_rate)

\* VirtualSensor: the values the three read_* methods can return
read_temperature == TempMin..(TempMax - 1)
read_humidity == HumMin..(HumMax - 1)
read_light_intensity == LightMin..(LightMax - 1)

\* Sample resetting the timestamps only when all three kinds are due
SampleResetWhenAllDue(t, h, l) ==
    /\ t \in read_temperature /\ h \in read_humidity /\ l \in read_light_intensity
    /\ temperature' = IF DueT THEN Some(t) ELSE None
    /\ humidity' = IF DueH THEN Some(h) ELSE None
    /\ light' = IF DueL THEN Some(l) ELSE None
    /\ last_temperature_time' =
         IF DueT /\ DueH /\ DueL THEN now ELSE last_temperature_time
    /\ last_humidity_time' = IF DueT /\ DueH /\ DueL THEN now ELSE last_humidity_time
    /\ last_light_time' = IF DueT /\ DueH /\ DueL THEN now ELSE last_light_time

\* the three sampling ifs: a due sensor is read and its timestamp reset
Sample(t, h, l) ==
    /\ t \in read_temperature /\ h \in read_humidity /\ l \in read_light_intensity
    /\ temperature' = IF DueT THEN Some(t) ELSE None
    /\ humidity' = IF DueH THEN Some(h) ELSE None
    /\ light' = IF DueL THEN Some(l) ELSE None
    /\ last_temperature_time' = IF DueT THEN now ELSE last_temperature_time
    /\ last_humidity_time' = IF DueH THEN now ELSE last_humidity_time
    /\ last_light_time' = IF DueL THEN now ELSE last_light_time

\* Combined testing only two of the three readings
CombinedIgnoringLight == IsSome(temperature') /\ IsSome(humidity')

\* the `if let (Some, Some, Some)` pattern over the readings just taken
Combined == IsSome(temperature') /\ IsSome(humidity') /\ IsSome(light')

\* an iteration in which the three readings are not all present
SampleOnly(t, h, l) ==
    /\ pc = "body"
    /\ Sample(t, h, l)
    /\ ~Combined
    /\ out' = <<>>
    /\ pc' = "sleep"
    /\ UNCHANGED <<entered, config, now, duration_seconds, start_time, temperature_values,
                   alerts, log_exists, log_lines, runs, pushed>>

\* an iteration with all three readings, the log write succeeding
CombinedTick(t, h, l) ==
    /\ pc = "body"
    /\ Sample(t, h, l)
    /\ Combined
    /\ log_exists' = TRUE
    /\ log_lines' = AppendRecord(log_lines)
    /\ temperature_values' = PushWindow(temperature_values, t)
    /\ pushed' = Append(pushed, t)
    /\ alerts' = check_alerts(t, h, l, config)
    /\ out' = Emission(t, h, l, temperature_values', config)
    /\ pc' = "sleep"
    /\ UNCHANGED <<entered, config, now, duration_seconds, start_time, runs>>

\* an iteration with all three readings, the log write failing: expect panics
CombinedTickLogFails(t, h, l) ==
    /\ pc = "body"
    /\ Sample(t, h, l)
    /\ Combined
    /\ out' = EmissionBeforePanic(t, h, l)
    /\ pc' = "panicked"
    /\ UNCHANGED <<entered, config, now, duration_seconds, start_time, temperature_values,
                   alerts, log_exists, log_lines, runs, pushed>>

\* thread::sleep(1 s), which returns after at least the tick period
Sleep(overrun) ==
    /\ pc = "sleep"
    /\ now' = now + TickPeriod + overrun
    /\ pc' = "loop"
    /\ UNCHANGED <<entered, config, duration_seconds, start_time, last_temperature_time,
                   last_humidity_time, last_light_time, temperature, humidity,
                   light, temperature_values, out, alerts, log_exists, log_lines,
                   runs, pushed>>

\* run_simulation returns Ok(()) to main's loop
ReturnToMenu ==
    /\ pc = "completed"
    /\ pc' = "menu"
    /\ UNCHANGED <<entered, config, now, log_exists, log_lines, runs, runLocals>>

----------------------------------------------------------------------------
(* Sample values drawn from the sensors' ranges, and configurations *)

TempSamples == {25}
TempSamplesWide == {20, 29}
HumSamples == {50, 60}
LightSamples == {90}

Rates == 0..MaxRate

Configs(rates, tthr, hthr, lthr, graph) ==
    [temperature_sampling_rate : rates,
     humidity_sampling_rate : rates,
     light_sampling_rate : rates,
     real_time_graph : graph,
     temperature_threshold : tthr,
     humidity_threshold : hthr,
     light_threshold : lthr]

\* the process after Config::load, at the main menu
Boot(cfgs) ==
    /\ config \in cfgs
    /\ pc = "menu"
    /\ now = 0
    /\ duration_seconds = 0
    /\ start_time = 0
    /\ last_temperature_time = 0
    /\ last_humidity_time = 0
    /\ last_light_time = 0
    /\ temperature = None
    /\ humidity = None
    /\ light = None
    /\ temperature_values = <<>>
    /\ out = <<>>
    /\ alerts = <<>>
    /\ log_exists = FALSE
    /\ log_lines = 0
    /\ runs = 0
    /\ entered = <<>>
    /\ pushed = <<>>

----------------------------------------------------------------------------
(* One run of the simulation, over every sampling configuration *)

InitRun == Boot(Configs(Rates, {24, 25}, {50}, {80}, BOOLEAN))

NextRun ==
    \/ \E choice \in {"1", "2", "x"} : StartSimulation(choice)
    \/ Complete
    \/ Continue
    \/ \E t \in TempSamples, h \in HumSamples, l \in LightSamples : SampleOnly(t, h, l)
    \/ \E t \in TempSamples, h \in HumSamples, l \in LightSamples : CombinedTick(t, h, l)
    \/ \E t \in TempSamples, h \in HumSamples, l \in LightSamples : CombinedTickLogFails(t, h, l)
    \/ \E overrun \in 0..MaxOverrun : Sleep(overrun)

SpecRun == InitRun /\ [][NextRun]_vars

----------------------------------------------------------------------------
(* main's menu, adjust_settings and view_logs *)

\* A line read from stdin is a sequence of characters.
Whitespace == {" ", "\n"}
Digits == {"0", "1", "2", "3", "4", "5", "6", "7", "8", "9"}

DigitValue(c) ==
    CASE c = "0" -> 0 [] c = "1" -> 1 [] c = "2" -> 2 [] c = "3" -> 3
      [] c = "4" -> 4 [] c = "5" -> 5 [] c = "6" -> 6 [] c = "7" -> 7
      [] c = "8" -> 8 [] c = "9" -> 9

RECURSIVE TrimStart(_)
TrimStart(s) ==
    IF s # <<>> /\ Head(s) \in Whitespace THEN TrimStart(Tail(s)) ELSE s

RECURSIVE TrimEnd(_)
TrimEnd(s) ==
    IF s # <<>> /\ s[Len(s)] \in Whitespace
    THEN TrimEnd(SubSeq(s, 1, Len(s) - 1)) ELSE s

\* str::trim
Trim(s) == TrimEnd(TrimStart(s))

RECURSIVE DecimalValue(_, _)
DecimalValue(acc, s) ==
    IF s = <<>> THEN acc ELSE DecimalValue(10 * acc + DigitValue(Head(s)), Tail(s))

AllDigits(s) == s # <<>> /\ \A i \in 1..Len(s) : s[i] \in Digits

\* str::parse::<u64>: an optional "+", then one or more decimal digits
\* (the inputs of the model are far below u64::MAX)
ParseU64(s) ==
    LET body == IF s # <<>> /\ Head(s) = "+" THEN Tail(s) ELSE s
    IN  IF AllDigits(body) THEN Some(DecimalValue(0, body)) ELSE None

\* str::parse::<f32> on the integer literals of the model: an optional sign,
\* then one or more decimal digits
ParseF32(s) ==
    LET signed == s # <<>> /\ Head(s) \in {"+", "-"}
        body == IF signed THEN Tail(s) ELSE s
        magnitude == DecimalValue(0, body)
    IN  IF AllDigits(body)
        THEN Some(IF signed /\ Head(s) = "-" THEN 0 - magnitude ELSE magnitude)
        ELSE None

\* SettingsField with choice "2" assigning the field of choice "1"
SettingsFieldCopyPaste(choice) ==
    CASE choice = "1" -> "temperature_sampling_rate"
      [] choice = "2" -> "temperature_sampling_rate"
      [] choice = "3" -> "light_sampling_rate"
      [] choice = "4" -> "temperature_threshold"
      [] choice = "5" -> "humidity_threshold"
      [] choice = "6" -> "light_threshold"

\* the field each settings choice assigns
SettingsField(choice) ==
    CASE choice = "1" -> "temperature_sampling_rate"
      [] choice = "2" -> "humidity_sampling_rate"
      [] choice = "3" -> "light_sampling_rate"
      [] choice = "4" -> "temperature_threshold"
      [] choice = "5" -> "humidity_threshold"
      [] choice = "6" -> "light_threshold"

RateChoices == {"1", "2", "3"}
ThresholdChoices == {"4", "5", "6"}

\* main's choice "2"
OpenSettings ==
    /\ pc = "menu"
    /\ pc' = "settings"
    /\ UNCHANGED <<entered, config, now, log_exists, log_lines, runs, runLocals>>

\* settings choices "1".."3": config.sensors.<rate> = input.trim().parse()?
AdjustRate(choice, input) ==
    /\ pc = "settings"
    /\ choice \in RateChoices
    /\ LET parsed == ParseU64(Trim(input))
       IN  IF IsSome(parsed)
           THEN /\ config' = [config EXCEPT ![SettingsField(choice)] = Unwrap(parsed)]
                /\ pc' = "settings"
           ELSE /\ pc' = "failed"
                /\ UNCHANGED config
    /\ entered' = <<choice, input>>
    /\ UNCHANGED <<now, log_exists, log_lines, runs, runLocals>>

\* settings choices "4".."6": config.alerts.<threshold> = input.trim().parse()?
AdjustThreshold(choice, input) ==
    /\ pc = "settings"
    /\ choice \in ThresholdChoices
    /\ LET parsed == ParseF32(Trim(input))
       IN  IF IsSome(parsed)
           THEN /\ config' = [config EXCEPT ![SettingsField(choice)] = Unwrap(parsed)]
                /\ pc' = "settings"
           ELSE /\ pc' = "failed"
                /\ UNCHANGED config
    /\ entered' = <<choice, input>>
    /\ UNCHANGED <<now, log_exists, log_lines, runs, runLocals>>

\* settings choice "7"
SettingsBack ==
    /\ pc = "settings"
    /\ pc' = "menu"
    /\ entered' = <<>>
    /\ UNCHANGED <<config, now, log_exists, log_lines, runs, runLocals>>

\* any other settings choice: "Invalid choice!" and the menu is shown again
SettingsInvalid ==
    /\ pc = "settings"
    /\ UNCHANGED vars

\* main's choice "3": fs::read_to_string(log_path)?
ViewLogs ==
    /\ pc = "menu"
    /\ pc' = IF log_exists THEN "menu" ELSE "failed"
    /\ UNCHANGED <<entered, config, now, log_exists, log_lines, runs, runLocals>>

\* main's choice "4"
Exit ==
    /\ pc = "menu"
    /\ pc' = "exited"
    /\ UNCHANGED <<entered, config, now, log_exists, log_lines, runs, runLocals>>

\* any other choice at the main menu
MenuInvalid ==
    /\ pc = "menu"
    /\ UNCHANGED vars

----------------------------------------------------------------------------
(* The whole program, started with a valid configuration *)

RateInputs ==
    {<<"0", "\n">>, <<"1", "\n">>, <<" ", "2", "\n">>, <<"-", "1", "\n">>, <<"a", "\n">>}
ThresholdInputs == {<<"2", "4", "\n">>, <<"2", "5", "\n">>, <<"\n">>}

Init == Boot(Configs(1..MaxRate, {25}, {50}, {80}, {TRUE}))

Next ==
    \/ \E choice \in {"1", "2", "x"} : StartSimulation(choice)
    \/ Complete
    \/ Continue
    \/ \E t \in TempSamples, h \in {50}, l \in LightSamples : SampleOnly(t, h, l)
    \/ \E t \in TempSamples, h \in {50}, l \in LightSamples : CombinedTick(t, h, l)
    \/ \E t \in TempSamples, h \in {50}, l \in LightSamples : CombinedTickLogFails(t, h, l)
    \/ Sleep(0)
    \/ ReturnToMenu
    \/ OpenSettings
    \/ \E choice \in RateChoices, input \in RateInputs : AdjustRate(choice, input)
    \/ \E choice \in {"4"}, input \in ThresholdInputs : AdjustThreshold(choice, input)
    \/ SettingsBack
    \/ SettingsInvalid
    \/ ViewLogs
    \/ Exit
    \/ MenuInvalid

Spec == Init /\ [][Next]_vars

----------------------------------------------------------------------------
(* The menu and the settings flow alone, over all six settings choices *)

NextSettings ==
    \/ OpenSettings
    \/ \E choice \in RateChoices, input \in RateInputs : AdjustRate(choice, input)
    \/ \E choice \in ThresholdChoices, input \in ThresholdInputs :
          AdjustThreshold(choice, input)
    \/ SettingsBack
    \/ SettingsInvalid
    \/ ViewLogs
    \/ Exit
    \/ MenuInvalid

SpecSettings == Init /\ [][NextSettings]_vars

----------------------------------------------------------------------------
(* One 15-second run at rate 1 with two distinguishable temperatures, so    *)
(* that the window overflows and the order of its contents can be observed  *)

InitWindow == Boot(Configs({1}, {25}, {50}, {80}, BOOLEAN))

NextWindow ==
    \/ StartSimulation("1")
    \/ Complete
    \/ Continue
    \/ \E t \in TempSamplesWide : SampleOnly(t, 50, 90)
    \/ \E t \in TempSamplesWide : CombinedTick(t, 50, 90)
    \/ \E t \in TempSamplesWide : CombinedTickLogFails(t, 50, 90)
    \/ Sleep(0)

SpecWindow == InitWindow /\ [][NextWindow]_vars

----------------------------------------------------------------------------
(* check_alerts as a pure function: the inputs are drawn by the initial     *)
(* state, one step applies the function                                     *)

AlertTemps == {24, 25, 26}
AlertHums == {49, 50, 51}
AlertLights == {79, 80, 81}

InitAlerts ==
    /\ config \in Configs({1}, {24, 25}, {50, 51}, {79, 80}, {TRUE})
    /\ pc = "check_alerts"
    /\ temperature \in {Some(v) : v \in AlertTemps}
    /\ humidity \in {Some(v) : v \in AlertHums}
    /\ light \in {Some(v) : v \in AlertLights}
    /\ now = 0
    /\ duration_seconds = 0
    /\ start_time = 0
    /\ last_temperature_time = 0
    /\ last_humidity_time = 0
    /\ last_light_time = 0
    /\ temperature_values = <<>>
    /\ out = <<>>
    /\ alerts = <<>>
    /\ log_exists = FALSE
    /\ log_lines = 0
    /\ runs = 0
    /\ entered = <<>>
    /\ pushed = <<>>

CallCheckAlerts ==
    /\ pc = "check_alerts"
    /\ alerts' = check_alerts(Unwrap(temperature), Unwrap(humidity), Unwrap(light), config)
    /\ pc' = "check_alerts_returned"
    /\ UNCHANGED <<entered, config, now, duration_seconds, start_time, last_temperature_time,
                   last_humidity_time, last_light_time, temperature, humidity,
                   light, temperature_values, out, log_exists, log_lines, runs,
                   pushed>>

NextAlerts == CallCheckAlerts

SpecAlerts == InitAlerts /\ [][NextAlerts]_vars

----------------------------------------------------------------------------
(* calculate_statistics as a pure function: the slice is drawn by the        *)
(* initial state, one step applies the function                              *)

MaxStatsLen == 4
StatsValues == {20, 25, 30}
StatsSlices == UNION {[1..n -> StatsValues] : n \in 0..MaxStatsLen}

InitStats ==
    /\ config \in Configs({1}, {25}, {50}, {80}, {TRUE})
    /\ pc = "calculate_statistics"
    /\ temperature_values \in StatsSlices
    /\ temperature = None
    /\ humidity = None
    /\ light = None
    /\ now = 0
    /\ duration_seconds = 0
    /\ start_time = 0
    /\ last_temperature_time = 0
    /\ last_humidity_time = 0
    /\ last_light_time = 0
    /\ out = <<>>
    /\ alerts = <<>>
    /\ log_exists = FALSE
    /\ log_lines = 0
    /\ runs = 0
    /\ entered = <<>>
    /\ pushed = <<>>

CallCalculateStatistics ==
    /\ pc = "calculate_statistics"
    /\ out' = << <<"stats", calculate_statistics(temperature_values)>> >>
    /\ pc' = "calculate_statistics_returned"
    /\ UNCHANGED <<entered, config, now, duration_seconds, start_time, last_temperature_time,
                   last_humidity_time, last_light_time, temperature, humidity,
                   light, temperature_values, alerts, log_exists, log_lines, runs,
                   pushed>>

NextStats == CallCalculateStatistics

SpecStats == InitStats /\ [][NextStats]_vars

----------------------------------------------------------------------------
(* One run with exact one-second ticks (iteration k at elapsed time k) and   *)
(* intervals 1..MaxExactRate                                                 *)

MaxExactRate == 5

InitExact == Boot(Configs(1..MaxExactRate, {25}, {50}, {80}, {TRUE}))

NextExact ==
    \/ \E choice \in {"1", "2", "x"} : StartSimulation(choice)
    \/ Complete
    \/ Continue
    \/ \E t \in TempSamples, l \in LightSamples : SampleOnly(t, 50, l)
    \/ \E t \in TempSamples, l \in LightSamples : CombinedTick(t, 50, l)
    \/ \E t \in TempSamples, l \in LightSamples : CombinedTickLogFails(t, 50, l)
    \/ Sleep(0)

SpecExact == InitExact /\ [][NextExact]_vars

\* the run under weak fairness: the single thread always takes its next step
FairSpecRun == SpecRun /\ WF_vars(NextRun)

----------------------------------------------------------------------------
(* Properties *)

TemperatureElapsed == now - last_temperature_time
HumidityElapsed == now - last_humidity_time
LightElapsed == now - last_light_time

SomeKindNotDue ==
    \/ TemperatureElapsed < config.temperature_sampling_rate
    \/ HumidityElapsed < config.humidity_sampling_rate
    \/ LightElapsed < config.light_sampling_rate

\* C1: in an iteration in which some kind is not due nothing is displayed,
\* logged, alerted or pushed to the window; output appears only in an
\* iteration in which all three kinds are due.
C1_CombinedTickGating ==
    /\ [][(pc = "body" /\ SomeKindNotDue) =>
            /\ out' = <<>>
            /\ log_lines' = log_lines
            /\ log_exists' = log_exists
            /\ alerts' = alerts
            /\ temperature_values' = temperature_values]_vars
    /\ [][(out' # <<>> /\ (pc = "body" \/ out' # out)) =>
            (pc = "body" /\ ~SomeKindNotDue)]_vars

C1_Witness ==
    /\ pc = "sleep"
    /\ now > start_time
    /\ IsSome(temperature) /\ IsSome(humidity) /\ light = None
    /\ out = <<>>

\* C2: in every iteration a kind is sampled iff now - last_fire >= interval,
\* a sampled kind's last_fire becomes now, and every last_fire starts at the
\* run's start time.
C2_DueRule ==
    /\ [][pc = "body" =>
            /\ IsSome(temperature') <=>
                 (TemperatureElapsed >= config.temperature_sampling_rate)
            /\ IsSome(humidity') <=>
                 (HumidityElapsed >= config.humidity_sampling_rate)
            /\ IsSome(light') <=> (LightElapsed >= config.light_sampling_rate)
            /\ IsSome(temperature') => last_temperature_time' = now
            /\ IsSome(humidity') => last_humidity_time' = now
            /\ IsSome(light') => last_light_time' = now]_vars
    /\ [][(pc = "menu" /\ pc' = "loop") =>
            /\ start_time' = now
            /\ last_temperature_time' = start_time'
            /\ last_humidity_time' = start_time'
            /\ last_light_time' = start_time']_vars

C2_Witness ==
    /\ pc = "sleep"
    /\ IsSome(humidity) /\ last_humidity_time = now
    /\ light = None /\ last_light_time < now
    /\ start_time < last_light_time

\* C3: two consecutive firings of a kind (and the run's start and its first
\* firing) are at least the kind's interval apart.
C3_FiringSpacing ==
    [][InRun =>
        /\ last_temperature_time' # last_temperature_time =>
             last_temperature_time' - last_temperature_time
               >= config.temperature_sampling_rate
        /\ last_humidity_time' # last_humidity_time =>
             last_humidity_time' - last_humidity_time
               >= config.humidity_sampling_rate
        /\ last_light_time' # last_light_time =>
             last_light_time' - last_light_time >= config.light_sampling_rate]_vars

\* the temperature sensor has fired at least twice: its first firing comes
\* less than interval + tick period + overrun after the start
C3_Witness ==
    /\ pc = "sleep"
    /\ config.temperature_sampling_rate = 2
    /\ IsSome(temperature)
    /\ last_temperature_time - start_time
         >= config.temperature_sampling_rate + TickPeriod + MaxOverrun + 1

LastN(s, n) == SubSeq(s, Len(s) - n + 1, Len(s))

\* C4: after n combined iterations the window holds the most recent
\* min(10, n) pushed temperatures, oldest first.
C4_RollingWindow ==
    /\ Len(temperature_values) = Min(WindowCapacity, Len(pushed))
    /\ Len(temperature_values) <= WindowCapacity
    /\ temperature_values = LastN(pushed, Min(WindowCapacity, Len(pushed)))

C4_Witness ==
    /\ Len(pushed) = WindowCapacity + 2
    /\ pushed[1] # pushed[WindowCapacity + 1]
    /\ temperature_values[1] # temperature_values[WindowCapacity]

AlertKinds == <<"Temperature", "Humidity", "Light">>

ReadingOf(kind) ==
    CASE kind = "Temperature" -> Unwrap(temperature)
      [] kind = "Humidity" -> Unwrap(humidity)
      [] kind = "Light" -> Unwrap(light)

ThresholdOf(kind) ==
    CASE kind = "Temperature" -> config.temperature_threshold
      [] kind = "Humidity" -> config.humidity_threshold
      [] kind = "Light" -> config.light_threshold

Exceeds(kind) == ReadingOf(kind) > ThresholdOf(kind)

\* C5: check_alerts returns one alert for each kind whose reading is
\* strictly above its threshold, in the order Temperature, Humidity, Light.
C5_AlertEvaluation ==
    pc = "check_alerts_returned" =>
        /\ Len(alerts) <= 3
        /\ [i \in 1..Len(alerts) |-> alerts[i][1]] = SelectSeq(AlertKinds, Exceeds)
        /\ \A i \in 1..Len(alerts) : alerts[i][2] = ReadingOf(alerts[i][1])

\* a reading equal to its threshold gave no alert, the other two did
C5_Witness ==
    /\ pc = "check_alerts_returned"
    /\ Unwrap(temperature) = config.temperature_threshold
    /\ Len(alerts) = 2
    /\ alerts[1][1] = "Humidity" /\ alerts[2][1] = "Light"

\* C6: a started run eventually reaches Completed, and nothing of the run
\* changes once it is Completed.
C6_Termination ==
    /\ (pc = "loop") ~> (pc = "completed")
    /\ [][pc = "completed" => UNCHANGED <<runLocals, log_lines>>]_vars

\* C7: a failing log write never terminates the process.
C7_LogFailureNonFatal == pc # "panicked"

Rank(entry) ==
    CASE entry[1] = "display" -> 1
      [] entry[1] = "log" -> 2
      [] entry[1] = "graph" -> 3
      [] entry[1] = "alert" /\ entry[2][1] = "Temperature" -> 4
      [] entry[1] = "alert" /\ entry[2][1] = "Humidity" -> 5
      [] entry[1] = "alert" /\ entry[2][1] = "Light" -> 6
      [] entry[1] = "stats" -> 7

InOrder(o) == \A i, j \in 1..Len(o) : i < j => Rank(o[i]) < Rank(o[j])

WholeEmission(o) ==
    /\ Len(o) >= 3
    /\ o[1][1] = "display"
    /\ o[2][1] = "log"
    /\ o[Len(o)][1] = "stats"
    /\ (o[3][1] = "graph") <=> config.real_time_graph

\* C8: the outputs of an iteration come in the order display, log, graph,
\* alerts, statistics; an iteration's output is whole before the loop goes
\* on, and output changes only in the loop body.
C8_EmissionOrder ==
    /\ [](InOrder(out))
    /\ []((pc \in {"sleep", "loop", "body", "completed"} /\ out # <<>>) =>
            WholeEmission(out))
    /\ [][out' # out => (pc = "body" \/ out' = <<>>)]_vars

C8_Witness ==
    /\ pc = "sleep"
    /\ Len(out) = 7

\* C9: every sampling interval of the configuration is > 0.
C9_IntervalsPositive ==
    /\ config.temperature_sampling_rate > 0
    /\ config.humidity_sampling_rate > 0
    /\ config.light_sampling_rate > 0

\* C10: no kind fires before its interval has elapsed since the run's start;
\* in the first iteration (elapsed time 0) no kind fires and nothing is
\* emitted.
C10_NoBurstAtStart ==
    pc \in {"sleep", "panicked"} =>
        /\ IsSome(temperature) =>
             now - start_time >= config.temperature_sampling_rate
        /\ IsSome(humidity) => now - start_time >= config.humidity_sampling_rate
        /\ IsSome(light) => now - start_time >= config.light_sampling_rate
        /\ now = start_time =>
             /\ temperature = None /\ humidity = None /\ light = None
             /\ out = <<>>

AllRatesOne ==
    /\ config.temperature_sampling_rate = 1
    /\ config.humidity_sampling_rate = 1
    /\ config.light_sampling_rate = 1

\* C11: in a run of D = 15 or 30 seconds with all three intervals 1 the
\* number of combined emissions is at most D, and each emission carries one
\* reading of each of the three kinds.
C11_EmissionBound ==
    (AllRatesOne /\ pc # "menu") =>
        /\ duration_seconds \in {DurationShort, DurationLong}
        /\ Len(pushed) <= duration_seconds
        /\ log_lines <= duration_seconds
        /\ out # <<>> =>
             /\ out[1][1] = "display"
             /\ out[1][2] = <<Unwrap(temperature), Unwrap(humidity), Unwrap(light)>>
             /\ out[1][2][1] \in TempMin..(TempMax - 1)
             /\ out[1][2][2] \in HumMin..(HumMax - 1)
             /\ out[1][2][3] \in LightMin..(LightMax - 1)

C11_Witness ==
    /\ AllRatesOne
    /\ pc = "completed"
    /\ duration_seconds = DurationShort
    /\ log_lines = DurationShort - 1
    /\ Len(out) >= 3

AllKindsDue == ~SomeKindNotDue

StatsResult == out[1][2]

\* an outcome that is not an (average, min, max) value
IsErrorOutcome(result) == Len(result) # 3

\* C13: calculate_statistics on an empty window signals an error instead of
\* returning an (average, min, max) value.
C13_EmptyWindowIsError ==
    (pc = "calculate_statistics_returned" /\ temperature_values = <<>>) =>
        IsErrorOutcome(StatsResult)

\* C14: whenever an iteration of the run loop has drawn the graph or printed
\* the statistics, the window they were computed from holds at least one
\* value (the temperature pushed in that iteration).
C14_WindowNonEmptyInLoop ==
    \A i \in 1..Len(out) :
        /\ out[i][1] \in {"graph", "stats"} =>
             /\ temperature_values # <<>>
             /\ temperature_values[Len(temperature_values)] = Unwrap(temperature)
        /\ out[i][1] = "graph" => out[i][2] = temperature_values

\* the first combined iteration of a run: the window holds the one value
\* just pushed when the graph and the statistics are produced
C14_Witness ==
    /\ pc = "sleep"
    /\ Len(temperature_values) = 1
    /\ Len(out) >= 4
    /\ out[3][1] = "graph"
    /\ out[Len(out)][1] = "stats"

\* C15: every run, also a second one in the same process, begins with an
\* empty window and with its three last-fire timestamps equal to its own
\* start time.
C15_RunLocalState ==
    /\ [][(pc = "menu" /\ pc' = "loop") =>
            /\ temperature_values' = <<>>
            /\ pushed' = <<>>
            /\ start_time' = now
            /\ last_temperature_time' = start_time'
            /\ last_humidity_time' = start_time'
            /\ last_light_time' = start_time'
            /\ temperature' = None /\ humidity' = None /\ light' = None]_vars
    /\ []((pc = "loop" /\ now = start_time) => temperature_values = <<>>)

\* a second run starting after a first run that pushed and logged readings
C15_Witness ==
    /\ runs = 2
    /\ pc = "loop"
    /\ now = start_time
    /\ start_time > 0
    /\ log_lines > 0
    /\ temperature_values = <<>>
    /\ last_temperature_time = start_time

Range(s) == {s[i] : i \in 1..Len(s)}

AlertShown(o, kind, value) == <<"alert", <<kind, value>>>> \in Range(o)

\* C16: every combined iteration shows an alert for each kind whose reading
\* is strictly above its threshold, whatever was alerted in earlier
\* iterations.
C16_NoAlertDeduplication ==
    [][(pc = "body" /\ pc' = "sleep" /\ out' # <<>>) =>
        /\ Unwrap(temperature') > config.temperature_threshold =>
             AlertShown(out', "Temperature", Unwrap(temperature'))
        /\ Unwrap(humidity') > config.humidity_threshold =>
             AlertShown(out', "Humidity", Unwrap(humidity'))
        /\ Unwrap(light') > config.light_threshold =>
             AlertShown(out', "Light", Unwrap(light'))]_vars

\* a third combined iteration alerting on the temperature: the reading is
\* above the threshold in every combined iteration of this run, so the two
\* iterations before it alerted as well
C16_Witness ==
    /\ pc = "sleep"
    /\ Len(pushed) = 3
    /\ \A i \in 1..Len(pushed) : pushed[i] > config.temperature_threshold
    /\ AlertShown(out, "Temperature", Unwrap(temperature))

\* the effect of one iteration on one kind, from that kind's own timestamp
\* and interval alone
KindStep(elapsed, rate, reading, last, lastAfter) ==
    IF elapsed >= rate
    THEN IsSome(reading) /\ lastAfter = now
    ELSE reading = None /\ lastAfter = last

\* C17: in every iteration each kind is decided from its own last_fire and
\* interval alone; a due kind has its last_fire set to now also when the
\* iteration is not a combined one, a kind that is not due keeps its
\* last_fire.
C17_IndependentReset ==
    [][pc = "body" =>
        /\ KindStep(TemperatureElapsed, config.temperature_sampling_rate,
                    temperature', last_temperature_time, last_temperature_time')
        /\ KindStep(HumidityElapsed, config.humidity_sampling_rate,
                    humidity', last_humidity_time, last_humidity_time')
        /\ KindStep(LightElapsed, config.light_sampling_rate,
                    light', last_light_time, last_light_time')]_vars

\* an iteration that is not combined: the humidity was read, dropped without
\* output and its timestamp reset, the temperature was not due
C17_Witness ==
    /\ pc = "sleep"
    /\ out = <<>>
    /\ IsSome(humidity) /\ last_humidity_time = now
    /\ temperature = None /\ last_temperature_time < now
    /\ start_time < last_temperature_time

\* the sum of the first n elements of s, by index
RECURSIVE SumOfFirst(_, _)
SumOfFirst(s, n) == IF n = 0 THEN 0 ELSE SumOfFirst(s, n - 1) + s[n]

\* C18: on a non-empty window calculate_statistics returns the arithmetic
\* mean (sum / count, kept as the pair <<sum, count>>), the smallest and the
\* largest element, so min <= average <= max; on <<20, 25, 30>> it returns
\* (25, 20, 30).
C18_StatisticsCorrect ==
    (pc = "calculate_statistics_returned" /\ temperature_values # <<>>) =>
        LET w == temperature_values
            average == StatsResult[1]
            least == StatsResult[2]
            greatest == StatsResult[3]
        IN  /\ Len(StatsResult) = 3
            /\ average = <<SumOfFirst(w, Len(w)), Len(w)>>
            /\ least \in Range(w) /\ \A v \in Range(w) : least <= v
            /\ greatest \in Range(w) /\ \A v \in Range(w) : greatest >= v
            /\ least * average[2] <= average[1]
            /\ average[1] <= greatest * average[2]
            /\ w = <<20, 25, 30>> =>
                 /\ average[1] = 25 * average[2]
                 /\ least = 20
                 /\ greatest = 30

C18_Witness ==
    /\ pc = "calculate_statistics_returned"
    /\ temperature_values = <<20, 25, 30>>
    /\ StatsResult = << <<75, 3>>, 20, 30 >>

RunElapsed == now - start_time

RECURSIVE Gcd(_, _)
Gcd(a, b) == IF b = 0 THEN a ELSE Gcd(b, a % b)

Lcm(a, b) == (a * b) \div Gcd(a, b)

RatesLcm ==
    Lcm(Lcm(config.temperature_sampling_rate, config.humidity_sampling_rate),
        config.light_sampling_rate)

AtCommonMultiple ==
    /\ RunElapsed > 0
    /\ RunElapsed % config.temperature_sampling_rate = 0
    /\ RunElapsed % config.humidity_sampling_rate = 0
    /\ RunElapsed % config.light_sampling_rate = 0

\* C19: with exact one-second ticks and intervals >= 1 an iteration is a
\* combined one (and emits) exactly when its elapsed time is a positive
\* common multiple of the three intervals, below the duration; when the
\* least common multiple is >= the duration the run completes without
\* emitting anything.
C19_CombinedAtCommonMultiples ==
    /\ pc \in {"sleep", "panicked"} =>
         /\ RunElapsed < duration_seconds
         /\ (IsSome(temperature) /\ IsSome(humidity) /\ IsSome(light))
              <=> AtCommonMultiple
         /\ (out # <<>>) <=> AtCommonMultiple
    /\ (pc = "completed" /\ RatesLcm >= duration_seconds) =>
         /\ log_lines = 0
         /\ pushed = <<>>
         /\ out = <<>>

\* the second combined iteration of a run with intervals 2, 3 and 1, at
\* elapsed time 12
C19_Witness ==
    /\ pc = "sleep"
    /\ config.temperature_sampling_rate = 2
    /\ config.humidity_sampling_rate = 3
    /\ config.light_sampling_rate = 1
    /\ RunElapsed = 12
    /\ Len(pushed) = 2
    /\ out # <<>>

\* the lines of the model that are numbers of the selected field's type,
\* with their values
NumberEntered(line) ==
    CASE line = <<"0", "\n">> -> 0
      [] line = <<"1", "\n">> -> 1
      [] line = <<" ", "2", "\n">> -> 2
      [] line = <<"2", "4", "\n">> -> 24
      [] line = <<"2", "5", "\n">> -> 25

NumberLines ==
    {<<"0", "\n">>, <<"1", "\n">>, <<" ", "2", "\n">>, <<"2", "4", "\n">>,
     <<"2", "5", "\n">>}

FieldSelected ==
    [c \in {"1", "2", "3", "4", "5", "6"} |->
        CASE c = "1" -> "temperature_sampling_rate"
          [] c = "2" -> "humidity_sampling_rate"
          [] c = "3" -> "light_sampling_rate"
          [] c = "4" -> "temperature_threshold"
          [] c = "5" -> "humidity_threshold"
          [] c = "6" -> "light_threshold"]

\* C20: in adjust_settings an input that does not parse leaves all six
\* configuration fields unchanged and ends the program with an error; an
\* input that parses changes only the selected field.
C20_SettingsEntry ==
    /\ [][(pc = "settings" /\ pc' # "menu" /\ entered' # <<>>) =>
            LET choice == entered'[1]
                line == entered'[2]
            IN  IF line \in NumberLines
                THEN /\ pc' = "settings"
                     /\ config'[FieldSelected[choice]] = NumberEntered(line)
                     /\ \A f \in DOMAIN config \ {FieldSelected[choice]} :
                          config'[f] = config[f]
                ELSE /\ pc' = "failed"
                     /\ config' = config]_vars
    /\ [][pc = "failed" => pc' = "failed"]_vars

\* the settings flow ended by the input "-1" for the humidity sampling rate
C20_Witness ==
    /\ pc = "failed"
    /\ entered = <<"2", <<"-", "1", "\n">>>>

====
